---- MODULE Spec2Model ----
(***************************************************************************)
(* Model of src/web_scrapping/colombiaChechk_scrapper.py: the Fetcher      *)
(* (get_html_requests), the Field Extractor (parse_article), the           *)
(* Pagination Collector (scrape_colombiacheck), the two persistence sinks  *)
(* (save_articles, save_articles_csv) and the main block that runs them.   *)
(*                                                                         *)
(* Python values are represented as follows.                               *)
(*   str            a sequence of one-character strings                    *)
(*   None | value   <<>> for None, <<v>> for the value v                   *)
(*   list           a sequence;   set   a set;   dict   a record           *)
(*   seconds        time.sleep durations are logged in milliseconds        *)
(***************************************************************************)
EXTENDS Integers, Sequences, FiniteSets, TLC

VARIABLES
    pc,          \* where the main program is (see the actions)
    limit,       \* scrape_colombiacheck: argument limit
    max_pages,   \* scrape_colombiacheck: argument max_pages
    sleep_time,  \* argument sleep_time, in seconds (collector and fetcher)
    articles,    \* scrape_colombiacheck: local articles
    seen_urls,   \* scrape_colombiacheck: local seen_urls
    page,        \* scrape_colombiacheck: local page
    soup,        \* result of get_html_requests: None or the document
    cheques,     \* containers selected on the current page
    idx,         \* position of the for loop in cheques (1-based)
    max_retries, \* get_html_requests: argument max_retries
    attempt,     \* get_html_requests: loop variable attempt
    calls,       \* history: the requests.get and time.sleep calls of the
                 \* current fetcher call, in order
    fetched,     \* history: page numbers the collector has fetched so far
    extracted,   \* history: number of parse_article calls so far
    most,        \* history: largest number of containers selected on a page
    dirs,        \* file system: the directories that exist
    txt,         \* file system: the article files, path -> content
    ledger,      \* file system: the CSV ledger, None or its rows
    fsink,       \* save_articles: the frame of the call
    csv,         \* save_articles_csv: the frame of the call of each process
    ncalls,      \* history: number of sink calls started so far
    asked,       \* history: the data rows of the article lists handed to
                 \* save_articles_csv so far, in call order
    written      \* history: paths opened for writing by the current
                 \* save_articles call, in order

collectorVars == <<limit, max_pages, articles, seen_urls, page, cheques, idx,
                   fetched, extracted, most>>
fetcherVars == <<soup, max_retries, attempt, calls>>
sinkVars == <<dirs, txt, ledger, fsink, csv, ncalls, asked, written>>
vars == <<pc, sleep_time, collectorVars, fetcherVars, sinkVars>>

----------------------------------------------------------------------------
(* Bounds of the model.                                                    *)

\* longest document (number of listing containers on one page)
MaxContainers == 2
\* largest value of the argument limit
MaxLimit == 2
\* largest value of the argument max_pages
MaxPagesArg == 2
\* longest article list handed to a sink that is called on its own
MaxBatch == 2
\* largest number of calls of a sink that is called on its own
MaxCalls == 2
\* length of the long article list handed to the file sink
LongBatch == 10

----------------------------------------------------------------------------
(* Strings.                                                                *)

None == <<>>
Some(v) == <<v>>
IsNone(o) == Len(o) = 0
Val(o) == o[1]

\* str.startswith
StartsWith(s, p) == Len(s) >= Len(p) /\ SubSeq(s, 1, Len(p)) = p

\* the literal "http" of line 156
HttpPrefix == <<"h", "t", "t", "p">>

\* the literal "https://colombiacheck.com" of line 157
BaseOrigin ==
    <<"h", "t", "t", "p", "s", ":", "/", "/", "c", "o", "l", "o", "m", "b",
      "i", "a", "c", "h", "e", "c", "k", ".", "c", "o", "m">>

IsSpace(ch) == ch \in {" ", "\n", "\t"}

RECURSIVE LStrip(_)
LStrip(s) == IF s # <<>> /\ IsSpace(Head(s)) THEN LStrip(Tail(s)) ELSE s

RECURSIVE RStrip(_)
RStrip(s) ==
    IF s # <<>> /\ IsSpace(s[Len(s)]) THEN RStrip(SubSeq(s, 1, Len(s) - 1))
    ELSE s

\* str.strip
Strip(s) == RStrip(LStrip(s))

----------------------------------------------------------------------------
(* The site: documents and their listing containers.                       *)

\* The selectors of lines 142, 145, 151, 163 and 164.
PrimarySelector == "div.Chequeo.Chequeo-fila"
FallbackSelector == "div.view-content .Chequeo"
AnchorSelector == "a"
TitleSelector == "h3.Chequeo-texto-titulo"
BodySelector == "p.Chequeo-texto-parrafo"

\* A listing container of a page:
\*   matches  the listing selectors that select the container
\*   a        None, or the first <a> with its href attribute (None if absent)
\*   title    None, or the text of the first h3.Chequeo-texto-titulo
\*   body     None, or the text of the first p.Chequeo-texto-parrafo
HrefA == <<"/", "a">>
HrefAbsA == BaseOrigin \o <<"/", "a">>
HrefB == <<"/", "b">>
HrefOther ==
    <<"h", "t", "t", "p", "s", ":", "/", "/", "o", "t", "h", "e", "r", ".",
      "s", "i", "t", "e", "/", "x">>
\* a relative href whose first letters are those of line 156
HrefHttpPath == <<"h", "t", "t", "p", "x">>
\* the attribute href=""
HrefEmpty == <<>>

Containers ==
    { [matches |-> {PrimarySelector}, a |-> Some([href |-> Some(HrefA)]),
       title |-> Some(<<" ", "T", "1", "\n">>), body |-> Some(<<"D", "1">>)],
      [matches |-> {PrimarySelector}, a |-> Some([href |-> Some(HrefAbsA)]),
       title |-> None, body |-> Some(<<"D", "2", " ">>)],
      [matches |-> {PrimarySelector}, a |-> Some([href |-> Some(HrefOther)]),
       title |-> Some(<<"T", "3">>), body |-> None],
      [matches |-> {PrimarySelector}, a |-> None,
       title |-> Some(<<"T", "4">>), body |-> Some(<<"D", "4">>)],
      [matches |-> {PrimarySelector, FallbackSelector},
       a |-> Some([href |-> None]),
       title |-> Some(<<"T", "5">>), body |-> Some(<<" ">>)],
      [matches |-> {FallbackSelector}, a |-> Some([href |-> Some(HrefB)]),
       title |-> Some(<<"T", "6">>), body |-> Some(<<"D", "6">>)],
      [matches |-> {PrimarySelector}, a |-> Some([href |-> Some(HrefHttpPath)]),
       title |-> Some(<<"T", "7">>), body |-> None],
      [matches |-> {PrimarySelector}, a |-> Some([href |-> Some(HrefEmpty)]),
       title |-> None, body |-> Some(<<"D", "8">>)] }

\* The documents a page can be: up to MaxContainers containers in document
\* order.
Documents == UNION { [1..n -> Containers] : n \in 0..MaxContainers }

\* soup.select(selector): the containers the selector matches, in document
\* order.
RECURSIVE Select(_, _)
Select(doc, selector) ==
    IF doc = <<>> THEN <<>>
    ELSE (IF selector \in Head(doc).matches THEN <<Head(doc)>> ELSE <<>>)
         \o Select(Tail(doc), selector)

\* container.select_one(selector) for the three selectors used on a container
SelectOne(container, selector) ==
    CASE selector = AnchorSelector -> container.a
      [] selector = TitleSelector -> container.title
      [] selector = BodySelector -> container.body

----------------------------------------------------------------------------
(* Fetcher: get_html_requests (lines 84-109).                              *)

\* default of the argument max_retries (line 85)
DefaultMaxRetries == 3

\* HTTP status codes a response can carry
Statuses == {199, 200, 299, 300, 404}

\* line 94: 200 <= resp.status_code < 300
IsSuccess(status) == 200 <= status /\ status < 300

\* faulty variant of line 106: the wait does not grow with the attempt
BackoffFixed(k) == 500

\* line 106: 0.5 * attempt seconds, in milliseconds
Backoff(k) == 500 * k

\* seconds to milliseconds
Millis(seconds) == 1000 * seconds

\* entries of the history of a fetcher call: the GET of attempt k, with
\* whether it brought a status in [200,300), and a sleep of ms milliseconds
Get(k, ok) == <<"get", k, ok>>
Slept(ms) == <<"sleep", ms>>
IsGet(e) == e[1] = "get"
IsSleep(e) == e[1] = "sleep"

\* time.sleep(t) raises ValueError for a negative t
SleepRaises(t) == t < 0

\* The call get_html_requests(url, sleep_time=...): the frame of the call.
FetcherEntry(retries) ==
    /\ max_retries' = retries
    /\ attempt' = 1
    /\ calls' = <<>>
    /\ soup' = None

\* Lines 96-98, after a status in [200,300): the polite sleep and the return
\* of the parsed document. The call time.sleep(sleep_time) of line 97 is
\* made for every sleep_time that is not 0; for a negative one it raises
\* ValueError, which line 102 does not catch.
FetchSucceed(doc) ==
    IF sleep_time # 0 /\ SleepRaises(sleep_time)
    THEN /\ pc' = "raised"
         /\ calls' = calls \o <<Get(attempt, TRUE),
                                Slept(Millis(sleep_time))>>
         /\ UNCHANGED <<soup, attempt>>
    ELSE /\ pc' = "fetched"
         /\ soup' = Some(doc)
         /\ calls' = IF sleep_time # 0
                     THEN calls \o <<Get(attempt, TRUE),
                                    Slept(Millis(sleep_time))>>
                     ELSE Append(calls, Get(attempt, TRUE))
         /\ UNCHANGED attempt

\* Lines 99-106, after a status outside [200,300) or a RequestException:
\* the warning, the backoff sleep and the next iteration.
FetchFail ==
    /\ calls' = calls \o <<Get(attempt, FALSE), Slept(Backoff(attempt))>>
    /\ attempt' = attempt + 1
    /\ UNCHANGED <<pc, soup>>

\* One iteration of the loop of line 90: one GET and what follows it.
FetchAttempt ==
    /\ pc = "fetch"
    /\ attempt <= max_retries
    /\ \/ \E status \in Statuses :
            IF IsSuccess(status)
            THEN \E doc \in Documents : FetchSucceed(doc)
            ELSE FetchFail
       \/ FetchFail
    /\ UNCHANGED <<sleep_time, max_retries, collectorVars, sinkVars>>

\* Lines 108-109: the loop is exhausted; log the error and return None.
FetchGiveUp ==
    /\ pc = "fetch"
    /\ attempt > max_retries
    /\ soup' = None
    /\ pc' = "fetched"
    /\ UNCHANGED <<sleep_time, max_retries, attempt, calls, collectorVars, sinkVars>>

----------------------------------------------------------------------------
(* Field Extractor: parse_article (lines 111-123).                         *)

\* element.get_text(strip=True) of an element holding one text node: the
\* stripped text, and nothing for a text that is all whitespace
GetTextStrip(el) == Strip(el)

\* faulty variant of lines 120-121: a missing element gives the text of None
parse_article_none(container, title_selector, body_selector) ==
    LET title_el == SelectOne(container, title_selector)
        body_el == SelectOne(container, body_selector)
    IN  << IF IsNone(title_el) THEN <<"N", "o", "n", "e">>
           ELSE GetTextStrip(Val(title_el)),
           IF IsNone(body_el) THEN <<"N", "o", "n", "e">>
           ELSE GetTextStrip(Val(body_el)) >>

\* lines 116-123
parse_article(container, title_selector, body_selector) ==
    LET title_el == SelectOne(container, title_selector)
        body_el == SelectOne(container, body_selector)
    IN  << IF IsNone(title_el) THEN <<>> ELSE GetTextStrip(Val(title_el)),
           IF IsNone(body_el) THEN <<>> ELSE GetTextStrip(Val(body_el)) >>

----------------------------------------------------------------------------
(* Pagination Collector: scrape_colombiacheck (lines 125-180).             *)

\* faulty variant of line 136: one page too many
LoopCondExtraPage(n, lim, pg, maxpg) == n < lim /\ pg <= maxpg + 1

\* faulty variant of line 136: the last page of the budget is not fetched
LoopCondEarlyStop(n, lim, pg, maxpg) == n < lim /\ pg < maxpg

\* line 136: the condition of the while loop
LoopCond(n, lim, pg, maxpg) == n < lim /\ pg <= maxpg

\* line 155: a_tag.get("href") or ""
HrefOf(a_tag) == IF IsNone(a_tag.href) THEN <<>> ELSE Val(a_tag.href)

\* lines 156-157
Resolve(link) ==
    IF link # <<>> /\ ~StartsWith(link, HttpPrefix) THEN BaseOrigin \o link
    ELSE link

\* faulty variant of line 159: the seen-set is not consulted
SkipEmptyOnly(link, seen) == link = <<>>

\* line 159: not link or link in seen_urls
Skip(link, seen) == link = <<>> \/ link \in seen

\* faulty variant of lines 142-146: the fallback is always used as well
SelectChequesBoth(doc) ==
    Select(doc, PrimarySelector) \o Select(doc, FallbackSelector)

\* lines 142-146: the primary selector, and the fallback if it selects nothing
SelectCheques(doc) ==
    IF Select(doc, PrimarySelector) # <<>> THEN Select(doc, PrimarySelector)
    ELSE Select(doc, FallbackSelector)

\* faulty variant of line 173: the loop stops one article late
LimitReachedLate(n, lim) == n > lim

\* faulty variant of line 173: the break is missing
LimitNever(n, lim) == FALSE

\* line 173: the limit is reached
LimitReached(n, lim) == n >= lim

\* Line 136 and, if the loop goes on, the call of line 138.
WhileTest ==
    /\ pc = "while"
    /\ IF LoopCond(Len(articles), limit, page, max_pages)
       THEN /\ pc' = "fetch"
            /\ fetched' = Append(fetched, page)
            /\ FetcherEntry(DefaultMaxRetries)
       ELSE /\ pc' = "return"
            /\ UNCHANGED <<fetched, fetcherVars>>
    /\ UNCHANGED <<sleep_time, limit, max_pages, articles, seen_urls, page,
                   cheques, idx, extracted, most, sinkVars>>

\* Faulty variant of lines 139-140: a failed fetch skips the page instead of
\* ending the loop.
CheckSoupSkipPage ==
    /\ pc = "fetched"
    /\ IF IsNone(soup)
       THEN /\ pc' = "advance"
            /\ UNCHANGED <<cheques, idx, most>>
       ELSE IF SelectCheques(Val(soup)) = <<>>
       THEN /\ pc' = "return"
            /\ UNCHANGED <<cheques, idx, most>>
       ELSE /\ pc' = "for"
            /\ cheques' = SelectCheques(Val(soup))
            /\ idx' = 1
            /\ most' = IF Len(cheques') > most THEN Len(cheques') ELSE most
    /\ attempt' = 0
    /\ calls' = <<>>
    /\ UNCHANGED <<sleep_time, limit, max_pages, articles, seen_urls, page,
                   fetched, extracted, soup, max_retries, sinkVars>>

\* Lines 139-148: the result of the fetcher and the selection of the
\* containers. The frame of the fetcher call is gone.
CheckSoup ==
    /\ pc = "fetched"
    /\ IF IsNone(soup) \/ SelectCheques(Val(soup)) = <<>>
       THEN /\ pc' = "return"
            /\ UNCHANGED <<cheques, idx, most>>
       ELSE /\ pc' = "for"
            /\ cheques' = SelectCheques(Val(soup))
            /\ idx' = 1
            /\ most' = IF Len(cheques') > most THEN Len(cheques') ELSE most
    /\ attempt' = 0
    /\ calls' = <<>>
    /\ UNCHANGED <<sleep_time, limit, max_pages, articles, seen_urls, page,
                   fetched, extracted, soup, max_retries, sinkVars>>

\* Faulty variant of lines 159-160: a container whose url was seen replaces
\* the article stored for that url.
ForBodyLastWins ==
    /\ pc = "for"
    /\ idx <= Len(cheques)
    /\ LET cheque == cheques[idx]
           a_tag == SelectOne(cheque, AnchorSelector)
           link == IF IsNone(a_tag) THEN <<>> ELSE Resolve(HrefOf(Val(a_tag)))
           parsed == parse_article(cheque, TitleSelector, BodySelector)
           article == [title |-> parsed[1], description |-> parsed[2],
                       url |-> link]
       IN  IF IsNone(a_tag) \/ Skip(link, seen_urls)
           THEN /\ idx' = idx + 1
                /\ articles' = [i \in DOMAIN articles |->
                                   IF articles[i].url = link THEN article
                                   ELSE articles[i]]
                /\ UNCHANGED <<pc, seen_urls, extracted>>
           ELSE /\ seen_urls' = seen_urls \cup {link}
                /\ extracted' = extracted + 1
                /\ articles' = Append(articles, article)
                /\ IF LimitReached(Len(articles'), limit)
                   THEN pc' = "advance" /\ UNCHANGED idx
                   ELSE idx' = idx + 1 /\ UNCHANGED pc
    /\ UNCHANGED <<sleep_time, limit, max_pages, page, cheques, fetched,
                   most, fetcherVars, sinkVars>>

\* Lines 150-174: one iteration of the for loop.
ForBody ==
    /\ pc = "for"
    /\ idx <= Len(cheques)
    /\ LET cheque == cheques[idx]
           a_tag == SelectOne(cheque, AnchorSelector)
           link == IF IsNone(a_tag) THEN <<>> ELSE Resolve(HrefOf(Val(a_tag)))
           parsed == parse_article(cheque, TitleSelector, BodySelector)
       IN  IF IsNone(a_tag) \/ Skip(link, seen_urls)
           THEN /\ idx' = idx + 1
                /\ UNCHANGED <<pc, articles, seen_urls, extracted>>
           ELSE /\ seen_urls' = seen_urls \cup {link}
                /\ extracted' = extracted + 1
                /\ articles' = Append(articles,
                                      [title |-> parsed[1],
                                       description |-> parsed[2],
                                       url |-> link])
                /\ IF LimitReached(Len(articles'), limit)
                   THEN pc' = "advance" /\ UNCHANGED idx
                   ELSE idx' = idx + 1 /\ UNCHANGED pc
    /\ UNCHANGED <<sleep_time, limit, max_pages, page, cheques, fetched,
                   most, fetcherVars, sinkVars>>

\* Faulty variant of the end of the for loop: a page after which the list is
\* still empty ends the pagination.
ForEndStopWhenEmpty ==
    /\ pc = "for"
    /\ idx > Len(cheques)
    /\ pc' = IF articles = <<>> THEN "return" ELSE "advance"
    /\ UNCHANGED <<sleep_time, collectorVars, fetcherVars, sinkVars>>

\* The for loop is exhausted.
ForEnd ==
    /\ pc = "for"
    /\ idx > Len(cheques)
    /\ pc' = "advance"
    /\ UNCHANGED <<sleep_time, collectorVars, fetcherVars, sinkVars>>

\* Lines 176-178: the next page and the pacing sleep. soup, cheques and the
\* loop position are not read again before lines 138, 142 and 150 assign
\* them.
Advance ==
    /\ pc = "advance"
    /\ IF SleepRaises(sleep_time)
       THEN pc' = "raised" /\ page' = page + 1
       ELSE pc' = "while" /\ page' = page + 1
    /\ cheques' = <<>>
    /\ idx' = 0
    /\ soup' = None
    /\ UNCHANGED <<sleep_time, limit, max_pages, articles, seen_urls,
                   fetched, extracted, most, max_retries, attempt, calls,
                   sinkVars>>

\* Line 180.
Return ==
    /\ pc = "return"
    /\ pc' = "returned"
    /\ UNCHANGED <<sleep_time, collectorVars, fetcherVars, sinkVars>>

----------------------------------------------------------------------------
(* Strings of the sinks.                                                   *)

DigitChars == <<"0", "1", "2", "3", "4", "5", "6", "7", "8", "9">>

\* str(n) for n >= 0
RECURSIVE Str(_)
Str(n) ==
    IF n < 10 THEN <<DigitChars[n + 1]>>
    ELSE Str(n \div 10) \o <<DigitChars[(n % 10) + 1]>>

\* str.zfill
RECURSIVE ZFill(_, _)
ZFill(s, width) == IF Len(s) >= width THEN s ELSE ZFill(<<"0">> \o s, width)

UpperChars ==
    <<"A", "B", "C", "D", "E", "F", "G", "H", "I", "J", "K", "L", "M", "N",
      "O", "P", "Q", "R", "S", "T", "U", "V", "W", "X", "Y", "Z">>
LowerChars ==
    <<"a", "b", "c", "d", "e", "f", "g", "h", "i", "j", "k", "l", "m", "n",
      "o", "p", "q", "r", "s", "t", "u", "v", "w", "x", "y", "z">>

LowerChar(ch) ==
    IF \E i \in DOMAIN UpperChars : UpperChars[i] = ch
    THEN LowerChars[CHOOSE i \in DOMAIN UpperChars : UpperChars[i] = ch]
    ELSE ch

\* str.lower
Lower(s) == [i \in 1..Len(s) |-> LowerChar(s[i])]

----------------------------------------------------------------------------
(* The file system and the arguments of the sinks.                         *)

\* default of the argument base_dir (lines 22 and 46)
BaseDir == "data_scraped"

\* default of the argument filename (line 47): the ledger is the file
\* <<BaseDir, LedgerName>>, held in the variable ledger
LedgerName == "noticiasColombiaCheck.csv"

\* os.path.join: a path is the sequence of its components
Join(path, name) == Append(path, name)

\* ensure_dir (lines 16-19); os.makedirs also makes the missing parents
RECURSIVE Parents(_)
Parents(path) ==
    IF path = <<>> THEN {} ELSE {path} \cup Parents(SubSeq(path, 1, Len(path) - 1))

ensure_dir(existing, path) == existing \cup Parents(path)

LabelFalso == <<"f", "a", "l", "s", "o">>
LabelVerdad == <<"v", "e", "r", "d", "a", "d">>
LabelVerdadCap == <<"V", "e", "r", "d", "a", "d">>
LabelFalsoUpper == <<"F", "A", "L", "S", "O">>
PortalCC ==
    <<"c", "o", "l", "o", "m", "b", "i", "a", "C", "h", "e", "c", "k">>
PortalBBC == <<"b", "b", "c">>

\* the <<label, portal>> pairs a sink is called with; the first is the one
\* of lines 184-185
SinkTargets ==
    {<<LabelFalso, PortalCC>>, <<LabelVerdadCap, PortalBBC>>,
     <<LabelVerdad, PortalCC>>}

\* the <<label, portal>> pairs the CSV sink is called with on its own
CsvTargets == SinkTargets \cup {<<LabelFalsoUpper, PortalBBC>>}

\* the articles of the lists handed to a sink that is called on its own
SampleArticles ==
    { [title |-> <<"T", "1">>, description |-> <<"D", "1">>,
       url |-> HrefAbsA],
      [title |-> <<>>, description |-> <<>>, url |-> HrefOther] }

ArticleLists == UNION { [1..n -> SampleArticles] : n \in 0..MaxBatch }

\* a long list, whose positions need two digits
LongList ==
    [i \in 1..LongBatch |->
        IF i % 2 = 1
        THEN [title |-> <<"T", "1">>, description |-> <<"D", "1">>,
              url |-> HrefAbsA]
        ELSE [title |-> <<>>, description |-> <<>>, url |-> HrefOther]]

\* the states the ledger can be in before a run of the main program: absent,
\* or left by an earlier run
HeaderRow ==
    << <<"f", "u", "e", "n", "t", "e">>,
       <<"t", "i", "t", "u", "l", "o">>,
       <<"d", "e", "s", "c", "r", "i", "p", "c", "i", "o", "n">>,
       <<"u", "r", "l">>,
       <<"v", "e", "r", "a", "c", "i", "d", "a", "d">> >>

EarlierRows ==
    <<HeaderRow, <<PortalBBC, <<"T", "0">>, <<"D", "0">>, HrefOther, <<"1">>>> >>

EarlierLedgers == {None, Some(EarlierRows)}

----------------------------------------------------------------------------
(* File sink: save_articles (lines 21-43).                                 *)

\* faulty variant of line 34: the position is not padded
FileNameNoPad(portal, i) ==
    portal \o <<"_">> \o Str(i) \o <<".", "t", "x", "t">>

\* line 34: f"{portal}_{str(idx).zfill(3)}.txt"
FileName(portal, i) ==
    portal \o <<"_">> \o ZFill(Str(i), 3) \o <<".", "t", "x", "t">>

\* lines 38-41: the lines written to the file, each as <<prefix, value>>
\* (the prefixes without their accents)
FileContent(portal, article) ==
    << <<"Fuente: ", portal>>,
       <<"URL: ", article.url>>,
       <<"Titulo: ", article.title>>,
       <<"", <<>>>>,
       <<"Descripcion: ", article.description>> >>

\* faulty variant of line 37: the write empties the rest of the directory
WriteFileClearDir(files, path, content) ==
    [f \in {g \in DOMAIN files : g[2] # path[2]} \cup {path} |->
        IF f = path THEN content ELSE files[f]]

\* open(filepath, "w") ... write ... close: the file is created or replaced
WriteFile(files, path, content) ==
    [f \in DOMAIN files \cup {path} |-> IF f = path THEN content ELSE files[f]]

\* lines 29-30 and the start of the loop of line 33
SaveArticlesCall(arts, label, portal) ==
    /\ fsink' = [articles |-> arts, label |-> label, portal |-> portal,
                 save_path |-> Join(<<BaseDir>>, label), idx |-> 1]
    /\ dirs' = ensure_dir(dirs, Join(<<BaseDir>>, label))
    /\ written' = <<>>
    /\ ncalls' = ncalls + 1
    /\ pc' = "save_txt"

\* Lines 33-41: one iteration, one open-write-close.
SaveArticlesWrite ==
    /\ pc = "save_txt"
    /\ fsink.idx <= Len(fsink.articles)
    /\ LET filepath == Join(fsink.save_path, FileName(fsink.portal, fsink.idx))
       IN  /\ txt' = WriteFile(txt, filepath,
                               FileContent(fsink.portal,
                                           fsink.articles[fsink.idx]))
           /\ written' = Append(written, filepath)
    /\ fsink' = [fsink EXCEPT !.idx = @ + 1]
    /\ UNCHANGED <<pc, sleep_time, collectorVars, fetcherVars, dirs, ledger,
                   csv, ncalls, asked>>

\* Line 43: the loop is exhausted; log and return.
SaveArticlesEnd ==
    /\ pc = "save_txt"
    /\ fsink.idx > Len(fsink.articles)
    /\ pc' = "saved"
    /\ UNCHANGED <<sleep_time, collectorVars, fetcherVars, sinkVars>>

----------------------------------------------------------------------------
(* CSV sink: save_articles_csv (lines 45-75). Each process that runs the   *)
(* sink has its own frame csv[p]. The rows written through csv.writer      *)
(* gather in the buffer of the file object; the buffer is appended to the  *)
(* file when it fills up and when the file is closed. A flush is modelled  *)
(* at a row boundary.                                                      *)

MainProc == "main"
OtherProc == "other"
Procs == {MainProc, OtherProc}

\* faulty variant of line 58: the label is compared as it is written
VeracidadExact(label) == IF label = LabelVerdad THEN 1 ELSE 0

\* line 58
Veracidad(label) == IF Lower(label) = LabelVerdad THEN 1 ELSE 0

\* lines 67-73: the row of an article, as csv.writer writes its fields
DataRow(portal, article, veracidad) ==
    <<portal, article.title, article.description, article.url, Str(veracidad)>>

IdleFrame ==
    [pc |-> "idle", articles |-> <<>>, label |-> <<>>, portal |-> <<>>,
     veracidad |-> 0, file_exists |-> FALSE, buf |-> <<>>, i |-> 0]

\* lines 55-58
CsvCall(p, arts, label, portal) ==
    /\ csv' = [csv EXCEPT ![p] =
                  [pc |-> "isfile", articles |-> arts, label |-> label,
                   portal |-> portal, veracidad |-> Veracidad(label),
                   file_exists |-> FALSE, buf |-> <<>>, i |-> 0]]
    /\ dirs' = ensure_dir(dirs, <<BaseDir>>)
    /\ ncalls' = ncalls + 1
    /\ asked' = asked \o [i \in 1..Len(arts) |->
                             DataRow(portal, arts[i], Veracidad(label))]

\* faulty variant of line 59: the ledger is never found
CsvIsFileNever(p) ==
    /\ csv[p].pc = "isfile"
    /\ csv' = [csv EXCEPT ![p].file_exists = FALSE, ![p].pc = "open"]
    /\ UNCHANGED <<pc, sleep_time, collectorVars, fetcherVars, dirs, txt,
                   ledger, fsink, ncalls, asked, written>>

\* line 59: file_exists = os.path.isfile(save_path)
CsvIsFile(p) ==
    /\ csv[p].pc = "isfile"
    /\ csv' = [csv EXCEPT ![p].file_exists = ~IsNone(ledger),
                          ![p].pc = "open"]
    /\ UNCHANGED <<pc, sleep_time, collectorVars, fetcherVars, dirs, txt,
                   ledger, fsink, ncalls, asked, written>>

\* line 61: open(save_path, "a") creates the file if it is missing
CsvOpen(p) ==
    /\ csv[p].pc = "open"
    /\ ledger' = IF IsNone(ledger) THEN Some(<<>>) ELSE ledger
    /\ csv' = [csv EXCEPT ![p].pc = "header"]
    /\ UNCHANGED <<pc, sleep_time, collectorVars, fetcherVars, dirs, txt,
                   fsink, ncalls, asked, written>>

\* faulty variant of lines 63-64: the header is written by every call
CsvHeaderAlways(p) ==
    /\ csv[p].pc = "header"
    /\ csv' = [csv EXCEPT
                  ![p].buf = Append(@, HeaderRow),
                  ![p].i = 1,
                  ![p].pc = "rows"]
    /\ UNCHANGED <<pc, sleep_time, collectorVars, fetcherVars, dirs, txt,
                   ledger, fsink, ncalls, asked, written>>

\* lines 62-64
CsvHeader(p) ==
    /\ csv[p].pc = "header"
    /\ csv' = [csv EXCEPT
                  ![p].buf = IF csv[p].file_exists THEN @
                             ELSE Append(@, HeaderRow),
                  ![p].i = 1,
                  ![p].pc = "rows"]
    /\ UNCHANGED <<pc, sleep_time, collectorVars, fetcherVars, dirs, txt,
                   ledger, fsink, ncalls, asked, written>>

\* lines 66-73: one iteration
CsvRow(p) ==
    /\ csv[p].pc = "rows"
    /\ csv[p].i <= Len(csv[p].articles)
    /\ csv' = [csv EXCEPT
                  ![p].buf = Append(@, DataRow(csv[p].portal,
                                               csv[p].articles[csv[p].i],
                                               csv[p].veracidad)),
                  ![p].i = @ + 1]
    /\ UNCHANGED <<pc, sleep_time, collectorVars, fetcherVars, dirs, txt,
                   ledger, fsink, ncalls, asked, written>>

\* the buffer of the file object fills up and is appended to the file
CsvFlush(p) ==
    /\ csv[p].pc = "rows"
    /\ csv[p].buf # <<>>
    /\ ledger' = Some(Val(ledger) \o csv[p].buf)
    /\ csv' = [csv EXCEPT ![p].buf = <<>>]
    /\ UNCHANGED <<pc, sleep_time, collectorVars, fetcherVars, dirs, txt,
                   fsink, ncalls, asked, written>>

\* the end of the with block of line 61 (the file is flushed and closed) and
\* line 75
CsvClose(p) ==
    /\ csv[p].pc = "rows"
    /\ csv[p].i > Len(csv[p].articles)
    /\ ledger' = Some(Val(ledger) \o csv[p].buf)
    /\ csv' = [csv EXCEPT ![p].buf = <<>>, ![p].pc = "done"]
    /\ UNCHANGED <<pc, sleep_time, collectorVars, fetcherVars, dirs, txt,
                   fsink, ncalls, asked, written>>

CsvStep(p) ==
    \/ CsvIsFile(p)
    \/ CsvOpen(p)
    \/ CsvHeader(p)
    \/ CsvRow(p)
    \/ CsvFlush(p)
    \/ CsvClose(p)

----------------------------------------------------------------------------
(* The main block (lines 182-186). The limit, the label and the portal are *)
(* the values its caller supplies.                                         *)

\* Line 184: save_articles(noticias, label, portal).
MainSaveArticles ==
    /\ pc = "returned"
    /\ \E target \in SinkTargets :
          SaveArticlesCall(articles, target[1], target[2])
    /\ UNCHANGED <<sleep_time, collectorVars, fetcherVars, txt, ledger, csv,
                   asked>>

\* Line 185: save_articles_csv(noticias, label, portal).
MainSaveCsv ==
    /\ pc = "saved"
    /\ CsvCall(MainProc, articles, fsink.label, fsink.portal)
    /\ pc' = "csv"
    /\ UNCHANGED <<sleep_time, collectorVars, fetcherVars, txt, ledger, fsink,
                   written>>

\* Line 186.
MainDone ==
    /\ pc = "csv"
    /\ csv[MainProc].pc = "done"
    /\ pc' = "done"
    /\ UNCHANGED <<sleep_time, collectorVars, fetcherVars, sinkVars>>

----------------------------------------------------------------------------
(* Specifications.                                                         *)

SleepTimes == {-1, 0, 2}

CollectorInit ==
    /\ articles = <<>>
    /\ seen_urls = {}
    /\ page = 1
    /\ cheques = <<>>
    /\ idx = 0
    /\ fetched = <<>>
    /\ extracted = 0
    /\ most = 0

FetcherIdle ==
    /\ soup = None
    /\ max_retries = DefaultMaxRetries
    /\ attempt = 0
    /\ calls = <<>>

SinksIdle ==
    /\ dirs = {}
    /\ txt = <<>>
    /\ fsink = [articles |-> <<>>, label |-> <<>>, portal |-> <<>>,
                save_path |-> <<>>, idx |-> 0]
    /\ csv = [p \in Procs |-> IdleFrame]
    /\ ncalls = 0
    /\ asked = <<>>
    /\ written = <<>>

\* The main program: scrape_colombiacheck(limit, max_pages, sleep_time)
\* (lines 131-134 are done), then the two sinks.
Init ==
    /\ pc = "while"
    /\ limit \in 0..MaxLimit
    /\ max_pages \in 0..MaxPagesArg
    /\ sleep_time \in SleepTimes
    /\ CollectorInit
    /\ FetcherIdle
    /\ SinksIdle
    /\ ledger \in EarlierLedgers

Next ==
    \/ WhileTest
    \/ FetchAttempt
    \/ FetchGiveUp
    \/ CheckSoup
    \/ ForBody
    \/ ForEnd
    \/ Advance
    \/ Return
    \/ MainSaveArticles
    \/ SaveArticlesWrite
    \/ SaveArticlesEnd
    \/ MainSaveCsv
    \/ CsvStep(MainProc)
    \/ MainDone

Spec == Init /\ [][Next]_vars

\* The Collector on its own: scrape_colombiacheck(limit, max_pages,
\* sleep_time) up to its return.
InitCollect ==
    /\ pc = "while"
    /\ limit \in 0..MaxLimit
    /\ max_pages \in 0..MaxPagesArg
    /\ sleep_time \in SleepTimes
    /\ CollectorInit
    /\ FetcherIdle
    /\ SinksIdle
    /\ ledger = None

NextCollect ==
    \/ WhileTest
    \/ FetchAttempt
    \/ FetchGiveUp
    \/ CheckSoup
    \/ ForBody
    \/ ForEnd
    \/ Advance
    \/ Return

SpecCollect == InitCollect /\ [][NextCollect]_vars

\* default of the argument sleep_time (line 125)
DefaultSleepTime == 2

\* The Collector called with the default delay or with a negative one. It
\* runs in one thread, which takes its next step whenever it has one.
InitCollectDefault == InitCollect /\ sleep_time \in {-1, DefaultSleepTime}

FairCollect ==
    InitCollectDefault /\ [][NextCollect]_vars /\ WF_vars(NextCollect)

\* The Fetcher on its own: get_html_requests(url, sleep_time, max_retries).
InitFetch ==
    /\ pc = "fetch"
    /\ sleep_time \in SleepTimes
    /\ max_retries \in 0..DefaultMaxRetries
    /\ attempt = 1
    /\ calls = <<>>
    /\ soup = None
    /\ limit = 0
    /\ max_pages = 0
    /\ CollectorInit
    /\ SinksIdle
    /\ ledger = None

NextFetch ==
    \/ FetchAttempt
    \/ FetchGiveUp

SpecFetch == InitFetch /\ [][NextFetch]_vars

\* The sinks on their own, on a file system that starts empty.
InitSinks ==
    /\ pc = "idle"
    /\ sleep_time = 0
    /\ limit = 0
    /\ max_pages = 0
    /\ CollectorInit
    /\ FetcherIdle
    /\ SinksIdle
    /\ ledger = None

\* Calls of save_articles, one after the other.
FileSinkCall ==
    /\ pc \in {"idle", "saved"}
    /\ ncalls < MaxCalls
    /\ \E arts \in ArticleLists \cup {LongList}, target \in SinkTargets :
          SaveArticlesCall(arts, target[1], target[2])
    /\ UNCHANGED <<sleep_time, collectorVars, fetcherVars, txt, ledger, csv,
                   asked>>

NextFile ==
    \/ FileSinkCall
    \/ SaveArticlesWrite
    \/ SaveArticlesEnd

SpecFile == InitSinks /\ [][NextFile]_vars

\* A process calls save_articles_csv.
CsvRun(p) ==
    /\ csv[p].pc \in {"idle", "done"}
    /\ ncalls < MaxCalls
    /\ \E arts \in ArticleLists, target \in CsvTargets :
          CsvCall(p, arts, target[1], target[2])
    /\ UNCHANGED <<pc, sleep_time, collectorVars, fetcherVars, txt, ledger,
                   fsink, written>>

NoCallActive == \A q \in Procs : csv[q].pc \in {"idle", "done"}

\* Calls of save_articles_csv, one after the other.
CsvRunAlone(p) == NoCallActive /\ CsvRun(p)

NextCsvSeq == CsvRunAlone(MainProc) \/ CsvStep(MainProc)

SpecCsvSeq == InitSinks /\ [][NextCsvSeq]_vars

\* Calls of save_articles_csv by independent processes, which may overlap.
NextCsv == \E p \in Procs : CsvRun(p) \/ CsvStep(p)

SpecCsv == InitSinks /\ [][NextCsv]_vars

----------------------------------------------------------------------------
(* Properties.                                                             *)

\* C1: in every state of a run of the Collector, so after every append and
\* at the return, the list of articles is no longer than limit.
C1_LengthAtMostLimit == Len(articles) <= limit

\* C1: an append has just filled the list up to a positive limit while
\* containers of the page were still to come.
C1_Witness ==
    /\ pc = "advance"
    /\ limit > 0
    /\ Len(articles) = limit
    /\ idx < Len(cheques)

\* C2: the urls of the accumulated articles are non-empty, pairwise distinct
\* and members of seen_urls.
C2_UrlsDistinct ==
    /\ \A i \in DOMAIN articles :
          articles[i].url # <<>> /\ articles[i].url \in seen_urls
    /\ \A i, j \in DOMAIN articles :
          articles[i].url = articles[j].url => i = j

\* C2: on page 2 the Collector has passed a container whose absolute href
\* is the url of the article it built on page 1 from the relative href.
C2_Witness ==
    /\ pc = "for"
    /\ page = 2
    /\ idx = 2
    /\ cheques[1].a = Some([href |-> Some(HrefAbsA)])
    /\ Len(articles) = 1
    /\ articles[1].url = HrefAbsA
    /\ articles[1].title = <<"T", "1">>

\* the GET requests of the current fetcher call
Gets == SelectSeq(calls, IsGet)

\* C3: the Fetcher issues at most max_retries GET requests, issues none
\* after a GET that brought a status in [200,300), returns the document
\* exactly when its last GET brought such a status, returns None exactly when
\* max_retries GETs all failed, and no exception escapes it.
C3_FetcherContract ==
    /\ Len(Gets) <= max_retries
    /\ \A i \in DOMAIN Gets : Gets[i][3] => i = Len(Gets)
    /\ pc # "raised"
    /\ pc = "fetched" =>
          /\ ~IsNone(soup) <=> (Gets # <<>> /\ Gets[Len(Gets)][3])
          /\ IsNone(soup) <=>
                (Len(Gets) = max_retries /\ \A i \in DOMAIN Gets : ~Gets[i][3])

\* C3 apart from the exception: the same contract in the states in which
\* no exception has escaped.
C3_ContractUnlessRaised ==
    /\ Len(Gets) <= max_retries
    /\ \A i \in DOMAIN Gets : Gets[i][3] => i = Len(Gets)
    /\ pc = "fetched" =>
          /\ ~IsNone(soup) <=> (Gets # <<>> /\ Gets[Len(Gets)][3])
          /\ IsNone(soup) <=>
                (Len(Gets) = max_retries /\ \A i \in DOMAIN Gets : ~Gets[i][3])
    /\ pc = "raised" => sleep_time < 0 /\ Gets # <<>> /\ Gets[Len(Gets)][3]

\* the states of the main program after the loop of the Collector
AfterLoop == {"return", "returned", "save_txt", "saved", "csv", "done"}

\* C4: when the Fetcher returns None the Collector leaves its loop at once:
\* the next step goes to the return, and from there on the page counter, the
\* pages fetched and the articles stay as they are.
C4_FailureEndsRun ==
    [][ /\ (pc = "fetched" /\ IsNone(soup)) =>
              (pc' = "return" /\ UNCHANGED <<page, fetched, articles>>)
        /\ (pc = "return") =>
              (pc' = "returned" /\ UNCHANGED <<page, fetched, articles>>)
        /\ (pc \in AfterLoop) =>
              (pc' \in AfterLoop /\ UNCHANGED <<page, fetched, articles>>)
      ]_vars

\* C4: the fetch of page 2 has failed while the loop condition still held,
\* and the Collector is about to return the article of page 1.
C4_Witness ==
    /\ pc = "return"
    /\ IsNone(soup)
    /\ page = 2
    /\ fetched = <<1, 2>>
    /\ Len(articles) = 1
    /\ Len(articles) < limit
    /\ page <= max_pages

\* the rows of the ledger
Rows == IF IsNone(ledger) THEN <<>> ELSE Val(ledger)

IsPrefix(s, t) == Len(s) <= Len(t) /\ SubSeq(t, 1, Len(s)) = s

Count(seq, x) == Cardinality({i \in DOMAIN seq : seq[i] = x})

\* C5: after sequential calls of the CSV sink on a ledger that did not
\* exist, the ledger is the header row followed by the data rows of the
\* calls, in call order and each batch in list order; and no step modifies
\* or removes a row that is in the ledger.
C5_HeaderOnce ==
    /\ []((NoCallActive /\ ncalls > 0) => Rows = <<HeaderRow>> \o asked)
    /\ [][IsPrefix(Rows, Rows')]_vars

\* C5: two calls with two articles each have ended.
C5_Witness ==
    /\ NoCallActive
    /\ ncalls = 2
    /\ Len(Rows) = 5

\* C6: after two runs of the CSV sink by two processes on a ledger that did
\* not exist, the header row is the first row and occurs once, and every
\* data row of both runs is in the ledger.
C6_NoCorruption ==
    (csv[MainProc].pc = "done" /\ csv[OtherProc].pc = "done" /\ ncalls = 2) =>
        /\ Rows # <<>>
        /\ Rows[1] = HeaderRow
        /\ Count(Rows, HeaderRow) = 1
        /\ \A i \in DOMAIN asked : Count(Rows, asked[i]) = Count(asked, asked[i])

\* C7: the Field Extractor has run once per appended article; when the
\* limit is reached on a page the loop stands at the container that reached
\* it; and from then on nothing is extracted, appended or fetched.
C7_StopAtLimit ==
    /\ [](extracted = Len(articles))
    /\ []((pc = "advance" /\ limit > 0 /\ Len(articles) >= limit) =>
              idx <= Len(cheques))
    /\ [][Len(articles) >= limit =>
              UNCHANGED <<extracted, articles, fetched>>]_vars

\* C7: the first container of a page has filled the list; the second
\* container, whose url is new, is not visited.
C7_Witness ==
    /\ pc = "advance"
    /\ page = 1
    /\ limit = 1
    /\ Len(articles) = 1
    /\ extracted = 1
    /\ Len(cheques) = 2
    /\ idx = 1
    /\ cheques[1].a = Some([href |-> Some(HrefA)])
    /\ cheques[2].a = Some([href |-> Some(HrefOther)])

\* the fetch of page 1 has failed and the main program has ended
FailedAtPage1 ==
    /\ pc = "done"
    /\ fetched = <<1>>
    /\ page = 1
    /\ IsNone(soup)

\* C8 as stated: when the fetch of page 1 fails the result is empty, no
\* article file is written and no row is written to the ledger.
C8_NoRowsWritten ==
    FailedAtPage1 =>
        /\ articles = <<>>
        /\ DOMAIN txt = {}
        /\ Rows = IF csv[MainProc].file_exists THEN EarlierRows ELSE <<>>

\* C8 as amended: when the fetch of page 1 fails the result is empty, no
\* article file is written and no data row is written to the ledger; a ledger
\* that did not exist is created with the header row as its only row.
C8_NoDataRows ==
    FailedAtPage1 =>
        /\ articles = <<>>
        /\ DOMAIN txt = {}
        /\ asked = <<>>
        /\ Rows = IF csv[MainProc].file_exists THEN EarlierRows
                  ELSE <<HeaderRow>>

\* C8: the fetch of page 1 has failed, the label directory exists and the
\* ledger, which did not exist, holds the header row.
C8_Witness ==
    /\ FailedAtPage1
    /\ limit > 0
    /\ max_pages > 0
    /\ ~csv[MainProc].file_exists
    /\ fsink.save_path \in dirs
    /\ Rows = <<HeaderRow>>

\* C9: the pages fetched are 1, 2, 3, ... in this order, each once, at most
\* max_pages of them, and the result is no longer than max_pages times the
\* largest number of containers selected on a page.
C9_PagesInOrder ==
    /\ fetched = [i \in 1..Len(fetched) |-> i]
    /\ Len(fetched) <= max_pages
    /\ Len(articles) <= Len(fetched) * most
    /\ Len(articles) <= max_pages * most

\* C9: a run has used up its two pages, each with one container.
C9_Witness ==
    /\ pc = "returned"
    /\ max_pages = 2
    /\ fetched = <<1, 2>>
    /\ page = 3
    /\ most = 1
    /\ Len(articles) = 2

\* the position i as three digits, for i < 1000
Pad3(i) ==
    <<DigitChars[(i \div 100) + 1], DigitChars[((i \div 10) % 10) + 1],
      DigitChars[(i % 10) + 1]>>

\* C10: the file sink opens one file per article, in list order, the k-th
\* being <base>/<label>/<portal>_<k as three digits>.txt; the names are
\* pairwise distinct, and when the call ends it has written exactly n files,
\* the k-th holding the k-th article.
C10_FileNames ==
    /\ \A k \in DOMAIN written :
          written[k] = <<BaseDir, fsink.label,
                         fsink.portal \o <<"_">> \o Pad3(k)
                            \o <<".", "t", "x", "t">> >>
    /\ \A j, k \in DOMAIN written : written[j] = written[k] => j = k
    /\ pc = "save_txt" => Len(written) = fsink.idx - 1
    /\ pc = "saved" =>
          /\ Len(written) = Len(fsink.articles)
          /\ \A k \in DOMAIN written :
                txt[written[k]] = FileContent(fsink.portal, fsink.articles[k])

\* C10: a call with the long list has ended: its positions run into two
\* digits.
C10_Witness ==
    /\ pc = "saved"
    /\ Len(fsink.articles) = LongBatch
    /\ Len(written) = LongBatch
    /\ Cardinality(DOMAIN txt) >= LongBatch

\* two characters that are the same letter, in whatever case
SameLetter(a, b) ==
    \/ a = b
    \/ \E i \in DOMAIN UpperChars :
          {a, b} = {UpperChars[i], LowerChars[i]}

\* two strings that differ in the case of their letters at most
EqualsIgnoreCase(s, t) ==
    Len(s) = Len(t) /\ \A i \in DOMAIN s : SameLetter(s[i], t[i])

\* a data row of the call of process p: five columns, the portal first, the
\* title, description and url of an article of the call, and the flag of the
\* label last
IsDataRowOf(row, p) ==
    /\ Len(row) = 5
    /\ row[1] = csv[p].portal
    /\ \E k \in DOMAIN csv[p].articles :
          /\ row[2] = csv[p].articles[k].title
          /\ row[3] = csv[p].articles[k].description
          /\ row[4] = csv[p].articles[k].url
    /\ row[5] \in {<<"0">>, <<"1">>}
    /\ EqualsIgnoreCase(csv[p].label, <<"v", "e", "r", "d", "a", "d">>) =>
          row[5] = <<"1">>
    /\ EqualsIgnoreCase(csv[p].label, <<"f", "a", "l", "s", "o">>) =>
          row[5] = <<"0">>

\* C11: every row a call of the CSV sink hands to the writer, apart from the
\* header, has the five columns portal, title, description, url, veracity,
\* and its veracity is 1 when the label of the call is "verdad" in any letter
\* case and 0 when it is "falso" in any letter case; every row of the ledger
\* has five columns and every row after the first ends in 0 or 1.
C11_VeracityFlag ==
    /\ \A p \in Procs : \A k \in DOMAIN csv[p].buf :
          csv[p].buf[k] # HeaderRow => IsDataRowOf(csv[p].buf[k], p)
    /\ \A k \in DOMAIN Rows :
          /\ Len(Rows[k]) = 5
          /\ k > 1 => Rows[k][5] \in {<<"0">>, <<"1">>}

\* C11: a call with the label "Verdad" and two articles has ended after a
\* call with the label "FALSO" and one article.
C11_Witness ==
    /\ csv[MainProc].pc = "done"
    /\ csv[MainProc].label = LabelVerdadCap
    /\ Len(csv[MainProc].articles) = 2
    /\ Len(Rows) = 4
    /\ Rows[2][5] = <<"0">>
    /\ Rows[2][1] = PortalBBC
    /\ Rows[3][5] = <<"1">>
    /\ Rows[4][5] = <<"1">>

\* the letters, and the characters of a URI scheme
Letters ==
    {LowerChars[i] : i \in DOMAIN LowerChars}
        \cup {UpperChars[i] : i \in DOMAIN UpperChars}
SchemeChars ==
    Letters \cup {DigitChars[i] : i \in DOMAIN DigitChars} \cup {"+", "-", "."}

\* the string starts with a scheme prefix: a letter, then scheme characters,
\* then a colon
HasScheme(s) ==
    \E i \in 2..Len(s) :
        /\ s[i] = ":"
        /\ s[1] \in Letters
        /\ \A j \in 1..(i - 1) : s[j] \in SchemeChars

\* the href of a container: empty when the anchor or the attribute is missing
HrefOfContainer(c) ==
    IF IsNone(c.a) THEN <<>>
    ELSE IF IsNone(Val(c.a).href) THEN <<>> ELSE Val(Val(c.a).href)

\* the URL an href stands for
ResolvedUrl(href) == IF HasScheme(href) THEN href ELSE BaseOrigin \o href

\* the containers of the current page the for loop has dealt with
Processed ==
    IF pc = "for" THEN idx - 1
    ELSE IF pc = "advance" /\ idx > 0
    THEN (IF idx <= Len(cheques) THEN idx ELSE Len(cheques))
    ELSE 0

\* the urls of the accumulated articles
ArticleUrls == {articles[i].url : i \in DOMAIN articles}

\* C12: for every container the for loop has dealt with and whose href is
\* not empty, the list holds an article whose url is the href itself when
\* the href starts with a scheme prefix and the base origin followed by the
\* href otherwise; and every url in the list is the resolved form of a
\* non-empty href, so an empty or missing href has given no article.
C12_ResolvedUrls ==
    /\ \A k \in 1..Processed :
          HrefOfContainer(cheques[k]) # <<>> =>
              ResolvedUrl(HrefOfContainer(cheques[k])) \in ArticleUrls
    /\ \A u \in ArticleUrls :
          \E c \in Containers :
              /\ HrefOfContainer(c) # <<>>
              /\ u = ResolvedUrl(HrefOfContainer(c))

\* C12 for the hrefs that line 156 sorts as the claim does: the same, for
\* every href that either has a scheme prefix or does not start with the
\* four letters of line 156.
C12_ResolvedUnlessHttpPath ==
    /\ \A k \in 1..Processed :
          LET href == HrefOfContainer(cheques[k])
          IN  (href # <<>> /\ (HasScheme(href) \/ ~StartsWith(href, HttpPrefix)))
                  => ResolvedUrl(href) \in ArticleUrls
    /\ \A u \in ArticleUrls :
          \E c \in Containers :
              /\ HrefOfContainer(c) # <<>>
              /\ \/ u = ResolvedUrl(HrefOfContainer(c))
                 \/ /\ u = HrefOfContainer(c)
                    /\ StartsWith(u, HttpPrefix)
                    /\ ~HasScheme(u)

\* the position in calls of the GET that brought a status in [200,300), or
\* 0 when there is none
SuccessAt ==
    IF \E i \in DOMAIN calls : IsGet(calls[i]) /\ calls[i][3]
    THEN CHOOSE i \in DOMAIN calls : IsGet(calls[i]) /\ calls[i][3]
    ELSE 0

\* the calls of time.sleep the Fetcher has made after its successful GET
AfterSuccess == SubSeq(calls, SuccessAt + 1, Len(calls))

\* C13: after a successful attempt the Fetcher returns the document, having
\* called time.sleep exactly once, with sleep_time seconds, when sleep_time
\* is greater than 0, and not at all when sleep_time is 0 or negative; so no
\* backoff sleep follows a successful attempt.
C13_PoliteSleep ==
    SuccessAt > 0 =>
        /\ pc = "fetched"
        /\ ~IsNone(soup)
        /\ AfterSuccess = IF sleep_time > 0
                          THEN << <<"sleep", 1000 * sleep_time>> >>
                          ELSE <<>>

\* C13 for the delays that are not negative: the same, for sleep_time >= 0.
C13_PoliteSleepNonNegative ==
    (SuccessAt > 0 /\ sleep_time >= 0) =>
        /\ pc = "fetched"
        /\ ~IsNone(soup)
        /\ AfterSuccess = IF sleep_time > 0
                          THEN << <<"sleep", 1000 * sleep_time>> >>
                          ELSE <<>>

\* the entry at position i of calls is the failed GET of an attempt
FailedGetAt(i) == IsGet(calls[i]) /\ ~calls[i][3]

\* the entry at position i of calls is a wait of 0.5 * k seconds
IsBackoffOf(i, k) ==
    /\ i <= Len(calls)
    /\ IsSleep(calls[i])
    /\ 2 * calls[i][2] = 1000 * k

\* the entry at position i of calls is the GET of attempt k
IsGetOf(i, k) == i <= Len(calls) /\ IsGet(calls[i]) /\ calls[i][2] = k

\* the call of the Fetcher has ended
FetcherEnded == pc \in {"fetched", "raised"}

\* C14 as stated: when the call of the Fetcher has ended, every failed GET,
\* of attempt k, is followed by a wait of 0.5 * k seconds and then by the GET
\* of attempt k + 1.
C14_BackoffThenRetry ==
    FetcherEnded =>
        \A i \in DOMAIN calls :
            FailedGetAt(i) =>
                /\ IsBackoffOf(i + 1, calls[i][2])
                /\ IsGetOf(i + 2, calls[i][2] + 1)

\* C14 as amended: the GETs are those of the attempts 1, 2, 3, ...; every
\* failed GET, of attempt k, is followed by a wait of 0.5 * k seconds, and
\* whatever follows that wait is the GET of attempt k + 1; every GET but the
\* last is followed by a wait; and when the call has ended the wait of
\* attempt k is followed by a GET exactly when k < max_retries.
C14_BackoffBetweenGets ==
    /\ \A j \in DOMAIN Gets : Gets[j][2] = j
    /\ \A i \in DOMAIN calls :
          FailedGetAt(i) =>
              /\ IsBackoffOf(i + 1, calls[i][2])
              /\ i + 2 <= Len(calls) => IsGetOf(i + 2, calls[i][2] + 1)
    /\ \A i \in DOMAIN calls :
          (IsGet(calls[i]) /\ \E j \in DOMAIN calls : j > i /\ IsGet(calls[j]))
              => IsSleep(calls[i + 1])
    /\ FetcherEnded =>
          \A i \in DOMAIN calls :
              FailedGetAt(i) =>
                  (calls[i][2] < max_retries <=> i + 2 <= Len(calls))

\* C14: three attempts have failed and the Fetcher has returned None after
\* waits of 0.5, 1.0 and 1.5 seconds.
C14_Witness ==
    /\ pc = "fetched"
    /\ IsNone(soup)
    /\ max_retries = 3
    /\ calls = << <<"get", 1, FALSE>>, <<"sleep", 500>>,
                  <<"get", 2, FALSE>>, <<"sleep", 1000>>,
                  <<"get", 3, FALSE>>, <<"sleep", 1500>> >>

\* the text of an element without the white space around it, and the empty
\* string for an element that is absent
TextOrEmpty(el) ==
    IF IsNone(el) THEN <<>>
    ELSE LET text == Val(el)
             inked == {i \in DOMAIN text : text[i] \notin {" ", "\n", "\t"}}
         IN  IF inked = {} THEN <<>>
             ELSE SubSeq(text,
                         CHOOSE i \in inked : \A j \in inked : i <= j,
                         CHOOSE i \in inked : \A j \in inked : i >= j)

\* C15: a step of the for loop at a container without an anchor, without an
\* href or with an empty href adds no article and goes on to the next
\* container of the same page; a step that adds an article adds one record
\* with the fields title, description and url, whose title and description
\* are the trimmed texts of the container's elements, the empty string for
\* an absent element, and stays in the loop or leaves it at the limit.
C15_MissingElements ==
    [][ (pc = "for" /\ idx <= Len(cheques)) =>
            IF HrefOfContainer(cheques[idx]) = <<>>
            THEN /\ pc' = "for"
                 /\ idx' = idx + 1
                 /\ UNCHANGED <<articles, cheques, page>>
            ELSE articles' # articles =>
                    /\ Len(articles') = Len(articles) + 1
                    /\ DOMAIN articles'[Len(articles')]
                          = {"title", "description", "url"}
                    /\ articles'[Len(articles')].title
                          = TextOrEmpty(cheques[idx].title)
                    /\ articles'[Len(articles')].description
                          = TextOrEmpty(cheques[idx].body)
                    /\ pc' \in {"for", "advance"}
      ]_vars

\* C15: the loop has passed a container without an anchor and then built an
\* article from a container without a body element.
C15_Witness ==
    /\ pc = "for"
    /\ idx = 3
    /\ IsNone(cheques[1].a)
    /\ IsNone(cheques[2].body)
    /\ Len(articles) = 1
    /\ articles[1].title = <<"T", "3">>
    /\ articles[1].description = <<>>

\* the containers of a document the primary and the fallback locator select
ByPrimary(doc) ==
    SelectSeq(doc, LAMBDA c : "div.Chequeo.Chequeo-fila" \in c.matches)
ByFallback(doc) ==
    SelectSeq(doc, LAMBDA c : "div.view-content .Chequeo" \in c.matches)

\* C16: while a page is processed its containers are those the primary
\* locator selects if it selects any, and otherwise those the fallback
\* locator selects; a fetched document in which both select nothing sends
\* the Collector to its return with the page counter and the articles as
\* they are.
C16_FallbackOnlyIfEmpty ==
    /\ [](pc = "for" =>
             /\ ~IsNone(soup)
             /\ cheques # <<>>
             /\ cheques = IF ByPrimary(Val(soup)) # <<>>
                          THEN ByPrimary(Val(soup))
                          ELSE ByFallback(Val(soup)))
    /\ [][ (pc = "fetched" /\ ~IsNone(soup)) =>
               IF ByPrimary(Val(soup)) = <<>> /\ ByFallback(Val(soup)) = <<>>
               THEN pc' = "return" /\ UNCHANGED <<page, articles, fetched>>
               ELSE pc' = "for" /\ idx' = 1 /\ UNCHANGED <<page, articles>>
         ]_vars
    /\ [][ (pc = "return" /\ ~IsNone(soup)) =>
               pc' = "returned" /\ UNCHANGED <<page, articles, fetched>>
         ]_vars

\* C16: a page holds a container both locators select and a container only
\* the fallback selects; the first alone is processed.
C16_Witness ==
    /\ pc = "for"
    /\ Len(Val(soup)) = 2
    /\ Val(soup)[1].matches = {"div.Chequeo.Chequeo-fila",
                               "div.view-content .Chequeo"}
    /\ Val(soup)[2].matches = {"div.view-content .Chequeo"}
    /\ cheques = <<Val(soup)[1]>>

\* C17: when the for loop has gone through the containers of a page,
\* whatever they have contributed, the Collector goes to line 176, adds one
\* to the page counter and tests the loop condition; and when the list is
\* shorter than limit and the page counter is at most max_pages, the next
\* step hands that page to the Fetcher.
C17_EmptyPageGoesOn ==
    [][ /\ (pc = "for" /\ idx > Len(cheques)) =>
              (pc' = "advance" /\ UNCHANGED <<page, articles>>)
        /\ (pc = "advance") =>
              (pc' = "while" /\ page' = page + 1 /\ UNCHANGED articles)
        /\ (pc = "while" /\ Len(articles) < limit /\ page <= max_pages) =>
              (pc' = "fetch" /\ fetched' = Append(fetched, page))
      ]_vars

\* C17: page 1 had containers and gave no article, and page 2 has been
\* handed to the Fetcher.
C17_Witness ==
    /\ pc = "fetch"
    /\ fetched = <<1, 2>>
    /\ page = 2
    /\ most > 0
    /\ articles = <<>>
    /\ limit > 0

\* the urls an href can stand for: itself, or the base origin followed by it
UrlsOfHref(href) == IF href = <<>> THEN {} ELSE {href, BaseOrigin \o href}

\* C18: the list only grows at its end, by one article at a time; the page
\* counter never goes back and the for loop goes through the containers of
\* a page in document order; an article is added only for the container
\* the loop stands at, with a url that is not yet in the list and with the
\* title and description of that container; and a container whose url is in
\* the list leaves the list as it is.
C18_FirstOccurrenceOrder ==
    [][ /\ IsPrefix(articles, articles')
        /\ Len(articles') <= Len(articles) + 1
        /\ page' >= page
        /\ (pc = "for" /\ pc' = "for") =>
              (idx' = idx + 1 /\ cheques' = cheques /\ page' = page)
        /\ articles' # articles =>
              /\ pc = "for"
              /\ idx <= Len(cheques)
              /\ articles'[Len(articles')].url
                    \in UrlsOfHref(HrefOfContainer(cheques[idx]))
              /\ articles'[Len(articles')].url \notin ArticleUrls
              /\ articles'[Len(articles')].title
                    = TextOrEmpty(cheques[idx].title)
              /\ articles'[Len(articles')].description
                    = TextOrEmpty(cheques[idx].body)
        /\ (/\ pc = "for"
            /\ idx <= Len(cheques)
            /\ UrlsOfHref(HrefOfContainer(cheques[idx])) \cap ArticleUrls # {})
              => articles' = articles
      ]_vars

\* C18: on page 1 the loop has built an article from the container with the
\* relative href and has passed the container whose absolute href is the
\* same url; the article has the title and description of the first.
C18_Witness ==
    /\ pc = "for"
    /\ page = 1
    /\ idx = 3
    /\ HrefOfContainer(cheques[1]) = <<"/", "a">>
    /\ HrefOfContainer(cheques[2]) = BaseOrigin \o <<"/", "a">>
    /\ articles = << [title |-> <<"T", "1">>, description |-> <<"D", "1">>,
                      url |-> BaseOrigin \o <<"/", "a">>] >>

\* every call of the Fetcher returns
FetcherCallsReturn == [](pc = "fetch" => <>(pc = "fetched"))

\* one of the four reasons to stop holds: the list has reached limit, the
\* page counter is beyond max_pages, the fetch of the current page has
\* failed, or the current page has no container either locator selects
StopCondition ==
    \/ Len(articles) >= limit
    \/ page > max_pages
    \/ Len(fetched) = page /\ IsNone(soup)
    \/ /\ Len(fetched) = page
       /\ ~IsNone(soup)
       /\ ByPrimary(Val(soup)) = <<>>
       /\ ByFallback(Val(soup)) = <<>>

\* C19: if every call of the Fetcher returns, the Collector, which takes
\* its next step whenever it has one, eventually returns; and whenever it
\* is at its return one of the four reasons to stop holds.
C19_EventuallyReturns ==
    /\ FetcherCallsReturn => <>(pc = "returned")
    /\ [](pc \in {"return", "returned"} => StopCondition)

\* C19: a run with a positive delay has returned because its budget of two
\* pages is used up, with fewer articles than limit.
C19_Witness ==
    /\ pc = "returned"
    /\ sleep_time > 0
    /\ max_pages = 2
    /\ page = 3
    /\ fetched = <<1, 2>>
    /\ Len(articles) < limit

\* the files <base>/<label>/<portal>_001.txt ... <portal>_<n>.txt of the
\* current call of the file sink
TargetFiles ==
    { <<BaseDir, fsink.label,
        fsink.portal \o <<"_">> \o Pad3(k) \o <<".", "t", "x", "t">> >> :
      k \in 1..Len(fsink.articles) }

\* C20: no step of the file sink removes a file, and a file that a step
\* creates or changes is one of the files <portal>_001.txt ...
\* <portal>_<n>.txt of the current call in the directory of its label; every
\* other file keeps its content.
C20_OnlyNumberedFiles ==
    [][ /\ DOMAIN txt \subseteq DOMAIN txt'
        /\ \A f \in DOMAIN txt' :
              (f \notin DOMAIN txt \/ txt'[f] # txt[f]) => f \in TargetFiles
      ]_vars

\* C20: a call with one article has ended after a call with more articles
\* for the same label and portal: the file 002 of the earlier call is still
\* there, next to the file 001.
C20_Witness ==
    /\ pc = "saved"
    /\ ncalls = 2
    /\ Len(fsink.articles) = 1
    /\ Len(written) = 1
    /\ <<BaseDir, fsink.label,
         fsink.portal \o <<"_", "0", "0", "2", ".", "t", "x", "t">> >>
           \in DOMAIN txt
    /\ Cardinality(DOMAIN txt) = 2

====
